---- MODULE Spec2Model ----
(***************************************************************************)
(* Model of static/js/chat.js: the chat widget's message log, the chat     *)
(* submit handler with its typing indicator, and the per-message translate *)
(* control.                                                                *)
(*                                                                         *)
(* Strings are sequences of tokens.  A token is a piece of text: the       *)
(* whitespace " ", the literal "/static/graphs/", the extension ".png"     *)
(* (or ".PNG"), or a word without whitespace that contains neither.  The   *)
(* string is the concatenation of its tokens, and on such strings the      *)
(* regular expressions of the source match exactly the token ranges the    *)
(* operators below compute.                                                *)
(***************************************************************************)
EXTENDS Integers, Sequences, FiniteSets, TLC

\* ------------------------------------------------------------- bounds --
MaxSubmits == 2
MaxClicks == 2

\* ------------------------------------------------------------ strings --
SP == " "
GraphDir == "/static/graphs/"
Png == ".png"
PngUpper == ".PNG"

IsSpace(c) == c = SP

\* String.prototype.trim
Trim(s) ==
  LET keep == {i \in 1..Len(s) : ~IsSpace(s[i])}
  IN  IF keep = {} THEN <<>>
      ELSE LET lo == CHOOSE i \in keep : \A k \in keep : i <= k
               hi == CHOOSE i \in keep : \A k \in keep : k <= i
           IN  SubSeq(s, lo, hi)

\* /\/static\/graphs\/[^\s]+\.png/ anchored at token i: the last token of
\* the greedy match, 0 when there is no match starting at i.
MatchEnd(s, i, exts) ==
  LET ends == {j \in (i + 2)..Len(s) :
                 /\ s[j] \in exts
                 /\ \A k \in (i + 1)..(j - 1) : ~IsSpace(s[k])}
  IN  IF i \in 1..Len(s) /\ s[i] = GraphDir /\ ends # {}
      THEN CHOOSE j \in ends : \A k \in ends : k <= j
      ELSE 0

\* first token of the leftmost match at or after from, 0 when none
MatchStart(s, from, exts) ==
  LET starts == {i \in from..Len(s) : MatchEnd(s, i, exts) # 0}
  IN  IF starts = {} THEN 0
      ELSE CHOOSE i \in starts : \A k \in starts : i <= k

\* text.match(/(\/static\/graphs\/[^\s]+\.png)/): imgMatch[0], <<>> for null
imgMatch(text) ==
  LET i == MatchStart(text, 1, {Png})
  IN  IF i = 0 THEN <<>> ELSE SubSeq(text, i, MatchEnd(text, i, {Png}))

\* text.replace(imgMatch[0], "").trim(): the first occurrence only
cleanText(text) ==
  LET i == MatchStart(text, 1, {Png})
  IN  Trim(SubSeq(text, 1, i - 1)
           \o SubSeq(text, MatchEnd(text, i, {Png}) + 1, Len(text)))

\* s.replace(graphRegex, "") with graphRegex = /.../gi: every match
RECURSIVE graphRegexReplace(_, _)
graphRegexReplace(s, from) ==
  LET i == MatchStart(s, from, {Png, PngUpper})
  IN  IF i = 0 THEN SubSeq(s, from, Len(s))
      ELSE SubSeq(s, from, i - 1)
           \o graphRegexReplace(s, MatchEnd(s, i, {Png, PngUpper}) + 1)

\* the translation with its graph paths removed but not trimmed
StripTranslationNoTrim(translation) == graphRegexReplace(translation, 1)

\* data.translation.replace(graphRegex, "").trim()
StripTranslation(translation) == Trim(graphRegexReplace(translation, 1))

\* --------------------------------------------------- inputs and texts --
\* The three fixed texts of the source are one token each: they contain
\* no "/static/graphs/" and are never concatenated with other text.
Greeting ==
  << "(U+1F44B) Hello! I'm Co-op Magic AI Assistant. Ask me anything about cooperatives in South Sudan. I can translate both English and Arabic." >>

TypingText == << "Co-op Magic AI Assistant is typing", "..." >>

FailText == << "Unable to reach the server." >>

\* values the user can leave in the input box
Inputs == { <<>>, <<SP>>, <<SP, "Hello", SP, "there", SP>> }

\* data.reply of an OK chat response
Replies ==
  { <<"Hi", SP, "there", SP, GraphDir, "q1", Png>> }

\* data.translation of an OK translate response
Translations ==
  { <<"marhaba">>,
    <<SP, "marhaba", SP, GraphDir, "q1", Png, SP>>,
    <<GraphDir, "q1", Png, "x", GraphDir, "q2", Png, SP, "marhaba", SP,
      GraphDir, "q3", PngUpper>> }

\* StripTranslation tabulated over the possible responses
StrippedTranslation == [x \in Translations |-> StripTranslation(x)]

\* -------------------------------------------------------------- state --
VARIABLES
  messages,   \* children of #messages, in document order
  input,      \* input.value
  loaded,     \* DOMContentLoaded has fired
  chatReqs,   \* suspended submit handlers (at await fetch / await res.json)
  trReqs,     \* suspended btn.onclick handlers
  nextId,     \* identity of the next element created
  nSubmits,   \* submissions with a non-empty trimmed input so far
  nClicks,    \* clicks that reached btn.onclick so far
  shown,      \* calls of addBotTyping so far
  removed,    \* typing indicators detached by typingElem.remove() so far
  alerts      \* calls of alert() so far

vars == << messages, input, loaded, chatReqs, trReqs, nextId, nSubmits,
           nClicks, shown, removed, alerts >>

Elem(id, cls, text, sub) ==
  [ id |-> id, cls |-> cls, text |-> text, orig |-> text, img |-> <<>>,
    btn |-> FALSE, disabled |-> FALSE, label |-> "", currentLang |-> "",
    sub |-> sub ]

\* the entry inserted before the first child of the log
addMessagePrepend(log, id, text, type, sub) ==
  << Elem(id, "message " \o type, text, sub) >> \o log

\* addMessage(text, type)
addMessage(log, id, text, type, sub) ==
  Append(log, Elem(id, "message " \o type, text, sub))

\* addBotMessage(text): text span, optional image, translate button
addBotMessage(log, id, text, sub) ==
  LET shownText == IF imgMatch(text) # <<>> THEN cleanText(text) ELSE text
  IN  Append(log,
        [ Elem(id, "message bot", shownText, sub) EXCEPT
            !.img = imgMatch(text),
            !.btn = TRUE,
            !.label = "Translate",
            !.currentLang = "en" ])

\* addBotTyping(): appends the indicator; the caller keeps id as the handle
addBotTyping(log, id, sub) ==
  Append(log, Elem(id, "message bot typing", TypingText, sub))

\* the first typing indicator of the log removed, whichever submission
\* created it
RemoveFirstTyping(log, id) ==
  LET ks == {k \in 1..Len(log) : log[k].cls = "message bot typing"}
  IN  IF ks = {} THEN log
      ELSE LET k0 == CHOOSE k \in ks : \A j \in ks : k <= j
           IN  SubSeq(log, 1, k0 - 1) \o SubSeq(log, k0 + 1, Len(log))

\* the last child of the log removed, whichever element that is
RemoveLastChild(log, id) == SubSeq(log, 1, Len(log) - 1)

\* typingElem.remove()
RemoveElem(log, id) == SelectSeq(log, LAMBDA m : m.id # id)

Init ==
  /\ messages = <<>>
  /\ input = <<>>
  /\ loaded = FALSE
  /\ chatReqs = {}
  /\ trReqs = {}
  /\ nextId = 1
  /\ nSubmits = 0
  /\ nClicks = 0
  /\ shown = 0
  /\ removed = 0
  /\ alerts = 0

\* window DOMContentLoaded listener
DOMContentLoaded ==
  /\ ~loaded
  /\ loaded' = TRUE
  /\ messages' = addBotMessage(messages, nextId, Greeting, 0)
  /\ nextId' = nextId + 1
  /\ UNCHANGED << input, chatReqs, trReqs, nSubmits, nClicks, shown,
                  removed, alerts >>

\* the user edits the input box (the user acts on the loaded page: Type,
\* Submit and Click are taken after DOMContentLoaded)
Type(v) ==
  /\ loaded
  /\ v # input
  /\ input' = v
  /\ UNCHANGED << messages, loaded, chatReqs, trReqs, nextId, nSubmits,
                  nClicks, shown, removed, alerts >>

\* the input value taken as it is, without trim()
SubmitMessageRaw(value) == value

\* const message = input.value.trim(); if (!message) return;
SubmitMessage(value) == Trim(value)

\* form submit listener, up to its first await
Submit ==
  LET message == SubmitMessage(input)
      sub == nSubmits + 1
  IN  IF message = <<>>
      THEN /\ loaded
           /\ UNCHANGED << messages, input, loaded, chatReqs, trReqs,
                           nextId, nSubmits, nClicks, shown, removed,
                           alerts >>
      ELSE /\ loaded
           /\ nSubmits < MaxSubmits
           /\ messages' = addBotTyping(
                            addMessage(messages, nextId, message, "user", sub),
                            nextId + 1, sub)
           /\ input' = <<>>
           /\ chatReqs' = chatReqs \cup
                            {[ sub |-> sub, message |-> message,
                               typingElem |-> nextId + 1 ]}
           /\ nextId' = nextId + 2
           /\ nSubmits' = sub
           /\ shown' = shown + 1
           /\ UNCHANGED << loaded, trReqs, nClicks, removed, alerts >>

\* a catch block that renders nothing
ChatCatchSilent(log, id, sub) == log

\* a catch block that renders the error's own message
ChatCatchErrorText(log, id, sub) ==
  addMessage(log, id, << "Server error" >>, "bot", sub)

\* catch { addMessage("Unable to reach the server.", "bot"); }
ChatCatch(log, id, sub) == addMessage(log, id, FailText, "bot", sub)

\* the chat handler leaves the catch block and ends
ChatFailed(r, log) ==
  /\ messages' = ChatCatch(log, nextId, r.sub)
  /\ nextId' = nextId + 1
  /\ chatReqs' = chatReqs \ {r}
  /\ UNCHANGED << input, loaded, trReqs, nSubmits, nClicks, shown, alerts >>

\* typingElem.remove() counted: detaches the indicator when it is attached
Detached(log, id) == IF \E k \in 1..Len(log) : log[k].id = id THEN 1 ELSE 0

\* fetch resolves with res.ok and res.json() with a string reply:
\* typingElem.remove(); addBotMessage(data.reply)
ChatOk(r, reply) ==
  /\ messages' = addBotMessage(RemoveElem(messages, r.typingElem), nextId,
                               reply, r.sub)
  /\ removed' = removed + Detached(messages, r.typingElem)
  /\ nextId' = nextId + 1
  /\ chatReqs' = chatReqs \ {r}
  /\ UNCHANGED << input, loaded, trReqs, nSubmits, nClicks, shown, alerts >>

\* fetch resolves with !res.ok: throw new Error("Server error")
ChatNotOk(r) == ChatFailed(r, messages) /\ UNCHANGED removed

\* fetch rejects (network failure)
ChatReject(r) == ChatFailed(r, messages) /\ UNCHANGED removed

\* res.ok, but res.json() rejects (the body is not JSON)
ChatBadBody(r) == ChatFailed(r, messages) /\ UNCHANGED removed

\* res.ok, but the body has no string reply: the indicator is removed,
\* then text.match throws inside addBotMessage before anything is appended
ChatNoReply(r) ==
  /\ ChatFailed(r, RemoveElem(messages, r.typingElem))
  /\ removed' = removed + Detached(messages, r.typingElem)

\* ------------------------------------------------- translate control --
InProgress == "Translating..."   \* "Translating" followed by U+2026

\* the element of the log with identity id
ElemOf(log, id) == log[CHOOSE k \in 1..Len(log) : log[k].id = id]

\* every control of the log takes the state of m (one state shared by all)
SetElemShared(log, id, m) ==
  [k \in 1..Len(log) |->
     IF log[k].btn
     THEN [log[k] EXCEPT !.disabled = m.disabled, !.label = m.label,
                         !.currentLang = m.currentLang]
     ELSE log[k]]

\* the log with element id replaced by m
SetElem(log, id, m) ==
  [k \in 1..Len(log) |-> IF log[k].id = id THEN m ELSE log[k]]

\* a click that relabels the button but leaves it enabled
ClickStartEnabled(m) == [m EXCEPT !.label = InProgress]

\* btn.disabled = true; btn.textContent = "Translating..."
ClickStart(m) == [m EXCEPT !.disabled = TRUE, !.label = InProgress]

\* a request that always asks for Arabic
TargetLangArabic(m) == "Arabic"

\* target_lang: currentLang === "en" ? "Arabic" : "English"
TargetLang(m) == IF m.currentLang = "en" THEN "Arabic" ELSE "English"

\* btn.onclick up to its first await; a disabled button receives no click
Click(id) ==
  LET m == ElemOf(messages, id)
  IN  /\ loaded
      /\ nClicks < MaxClicks
      /\ m.btn /\ ~m.disabled
      /\ messages' = SetElem(messages, id, ClickStart(m))
      /\ trReqs' = trReqs \cup
                     {[ rid |-> nClicks + 1, msg |-> id, text |-> m.text,
                        target_lang |-> TargetLang(m) ]}
      /\ nClicks' = nClicks + 1
      /\ UNCHANGED << input, loaded, chatReqs, nextId, nSubmits, shown,
                      removed, alerts >>

\* a handler without the finally block
TranslateFinallyMissing(m) == m

\* finally { btn.disabled = false; }
TranslateFinally(m) == [m EXCEPT !.disabled = FALSE]

\* textSpan.textContent = ...; currentLang = ...; btn.textContent = ...
TranslateApply(m, translation) ==
  LET lang == IF m.currentLang = "en" THEN "ar" ELSE "en"
  IN  [m EXCEPT !.text = StrippedTranslation[translation],
                !.currentLang = lang,
                !.label = IF lang = "en" THEN "Translate" ELSE "Original"]

\* a handler that enables the button on the success path only
TranslateFailedNoFinally(q) ==
  /\ alerts' = alerts + 1
  /\ trReqs' = trReqs \ {q}
  /\ UNCHANGED << messages, input, loaded, chatReqs, nextId, nSubmits,
                  nClicks, shown, removed >>

\* the click handler runs catch (alert("Translation failed!")) and finally
TranslateFailed(q) ==
  /\ messages' = SetElem(messages, q.msg,
                          TranslateFinally(ElemOf(messages, q.msg)))
  /\ alerts' = alerts + 1
  /\ trReqs' = trReqs \ {q}
  /\ UNCHANGED << input, loaded, chatReqs, nextId, nSubmits, nClicks,
                  shown, removed >>

\* fetch resolves with !res.ok: throw new Error("Translation API error")
TrNotOk(q) == TranslateFailed(q)

\* fetch rejects (network error)
TrReject(q) == TranslateFailed(q)

\* fetch resolves with res.ok and res.json() with a string translation
TrOk(q, translation) ==
  /\ messages' = SetElem(messages, q.msg,
                   TranslateFinally(
                     TranslateApply(ElemOf(messages, q.msg), translation)))
  /\ trReqs' = trReqs \ {q}
  /\ UNCHANGED << input, loaded, chatReqs, nextId, nSubmits, nClicks,
                  shown, removed, alerts >>

\* res.ok, but res.json() rejects, or the body has no string translation
\* and data.translation.replace throws before textSpan is assigned
TrBadBody(q) == TranslateFailed(q)

\* identities of the elements in the log
Ids(log) == {log[k].id : k \in 1..Len(log)}

Next ==
  \/ DOMContentLoaded
  \/ \E v \in Inputs : Type(v)
  \/ Submit
  \/ \E r \in chatReqs, reply \in Replies : ChatOk(r, reply)
  \/ \E r \in chatReqs : ChatNotOk(r)
  \/ \E r \in chatReqs : ChatReject(r)
  \/ \E r \in chatReqs : ChatBadBody(r)
  \/ \E r \in chatReqs : ChatNoReply(r)
  \/ \E id \in Ids(messages) : Click(id)
  \/ \E q \in trReqs, translation \in Translations : TrOk(q, translation)
  \/ \E q \in trReqs : TrNotOk(q)
  \/ \E q \in trReqs : TrReject(q)
  \/ \E q \in trReqs : TrBadBody(q)

Spec == Init /\ [][Next]_vars

\* a chat request in flight is eventually answered, one way or another
ChatResolve ==
  \E r \in chatReqs :
    (ChatNotOk(r) \/ ChatReject(r) \/ ChatBadBody(r) \/ ChatNoReply(r)
       \/ \E reply \in Replies : ChatOk(r, reply))

FairSpec == Spec /\ WF_vars(ChatResolve)

\* ------------------------------------------------------------- claims --
\* positions of the log by kind of entry
WithClass(log, cls) == {k \in 1..Len(log) : log[k].cls = cls}
Typing == WithClass(messages, "message bot typing")
UserOf(s) ==
  {k \in 1..Len(messages) :
     messages[k].cls = "message user" /\ messages[k].sub = s}
BotOf(s) ==
  {k \in 1..Len(messages) :
     messages[k].cls = "message bot" /\ messages[k].sub = s}
Controls == {k \in 1..Len(messages) : messages[k].btn}
InFlight(s) == \E r \in chatReqs : r.sub = s
RequestsOf(id) == {q \in trReqs : q.msg = id}

\* empty or whitespace-only
Blank(v) == \A i \in 1..Len(v) : v[i] = " "

\* v without its leading and trailing whitespace, by positions
Trimmed(v, t) ==
  \E lo \in 0..Len(v), hi \in 0..Len(v) :
    /\ t = SubSeq(v, lo + 1, hi)
    /\ (lo <= hi \/ t = <<>>)
    /\ Blank(SubSeq(v, 1, lo)) /\ Blank(SubSeq(v, hi + 1, Len(v)))
    /\ (t # <<>> => t[1] # " " /\ t[Len(t)] # " ")

\* C1: once a submission's chat request has resolved, its typing indicator
\* is no longer in the log; when no chat request is in flight, as many
\* indicators have been removed as were shown.
C1_IndicatorGoneOnceResolved ==
  /\ \A k \in Typing : InFlight(messages[k].sub)
  /\ (chatReqs = {} => shown = removed)

\* a non-empty submit appends the user entry with the trimmed text, then the
\* indicator, and issues one chat request carrying that text
SubmitEffect ==
  nSubmits' # nSubmits =>
    LET n == Len(messages)
    IN  /\ nSubmits' = nSubmits + 1
        /\ ~Blank(input)
        /\ Len(messages') = n + 2
        /\ SubSeq(messages', 1, n) = messages
        /\ messages'[n + 1].cls = "message user"
        /\ messages'[n + 1].sub = nSubmits'
        /\ Trimmed(input, messages'[n + 1].text)
        /\ messages'[n + 2].cls = "message bot typing"
        /\ \E r \in chatReqs' :
             /\ chatReqs' = chatReqs \cup {r} /\ r \notin chatReqs
             /\ r.sub = nSubmits'
             /\ r.message = messages'[n + 1].text
             /\ r.typingElem = messages'[n + 2].id
        /\ input' = <<>>

\* per submission: one user entry; no bot entry while the request is in
\* flight, one bot entry (the reply or the failure message) afterwards
OneUserOneBot ==
  \A s \in 1..nSubmits :
    /\ Cardinality(UserOf(s)) = 1
    /\ \A k \in UserOf(s) : ~Blank(messages[k].text)
    /\ InFlight(s) => BotOf(s) = {}
    /\ ~InFlight(s) =>
         /\ Cardinality(BotOf(s)) = 1
         /\ \A k \in BotOf(s) :
              \/ messages[k].btn
              \/ messages[k].text = << "Unable to reach the server." >>
         /\ \A k \in BotOf(s), u \in UserOf(s) : u < k

\* C2: every non-empty submit appends exactly one user entry with the
\* trimmed text and, once its chat request resolves, exactly one bot entry
\* for that submission; the request does resolve when the endpoint answers.
C2_OneUserEntryOneBotEntry ==
  /\ []OneUserOneBot
  /\ [][SubmitEffect]_vars
  /\ []<>(\A s \in 1..nSubmits : Cardinality(BotOf(s)) = 1)

\* both submissions answered, one with a reply and one with the failure text
C2_Witness ==
  /\ nSubmits = 2 /\ chatReqs = {}
  /\ \E k \in BotOf(1) : messages[k].btn
  /\ \E k \in BotOf(2) : ~messages[k].btn

\* C3: the log holds at most one typing indicator in every reachable state.
C3_AtMostOneIndicator == Cardinality(Typing) <= 1

\* the control of the message a translate request belongs to, before and
\* after a step
Before(q) == ElemOf(messages, q.msg)
After(q) == ElemOf(messages', q.msg)

\* C4: a second click, after a first successful translation, puts back the
\* text displayed before the first click, with the control in the Original
\* state and labelled "Translate", whatever translation the endpoint returns.
C4_SecondClickRestoresOriginal ==
  [][\A q \in trReqs, translation \in Translations :
       (TrOk(q, translation) /\ q.target_lang = "English") =>
         /\ After(q).text = Before(q).orig
         /\ After(q).currentLang = "en"
         /\ After(q).label = "Translate"]_vars

\* C5: after a failed translate request the label is the one the control had
\* before the click; an enabled control never shows the in-progress label.
C5_LabelRestoredOnFailure ==
  \A k \in Controls :
    ~messages[k].disabled =>
      messages[k].label =
        (IF messages[k].currentLang = "en" THEN "Translate" ELSE "Original")

\* C6: a failed translate request leaves the displayed text and the
\* Original/Translated state as they were before the click, raises an alert
\* and enables the control again, so that a later click is accepted.
C6_FailureLeavesMessage ==
  /\ [][\A q \in trReqs :
          (TrNotOk(q) \/ TrReject(q)) =>
            /\ After(q).text = q.text
            /\ After(q).text = Before(q).text
            /\ After(q).currentLang = Before(q).currentLang
            /\ (After(q).currentLang = "en") = (q.target_lang = "Arabic")
            /\ After(q).img = Before(q).img
            /\ alerts' = alerts + 1
            /\ ~After(q).disabled]_vars
  /\ [](\A k \in Controls :
          (~messages[k].disabled /\ nClicks < MaxClicks)
            => ENABLED Click(messages[k].id))

\* a control in the Translated state whose last request failed
C6_Witness ==
  \E k \in Controls :
    /\ messages[k].currentLang = "ar" /\ ~messages[k].disabled
    /\ messages[k].label = "Translating..."
    /\ alerts > 0

\* a graph-image path in x from token i to token j
IsPath(x, i, j) ==
  /\ x[i] = "/static/graphs/"
  /\ j >= i + 2
  /\ x[j] \in {".png", ".PNG"}
  /\ \A k \in (i + 1)..(j - 1) : x[k] # " "

\* the tokens of x that lie on no graph-image path
OffPath(x) ==
  {p \in 1..Len(x) :
     ~\E i \in 1..p, j \in p..Len(x) : IsPath(x, i, j)}

\* x restricted to the positions in keep, in order
Restrict(x, keep) ==
  [n \in 1..Cardinality(keep) |->
     x[CHOOSE p \in keep : Cardinality({k \in keep : k <= p}) = n]]

\* each translation without the tokens of its graph-image paths
PathFree == [x \in Translations |-> Restrict(x, OffPath(x))]

\* C7: a click in the Original state answered OK with translation X shows
\* exactly X without its graph-image paths and surrounding whitespace, with
\* the control Translated, enabled and labelled "Original".
C7_TranslateShowsStrippedText ==
  [][\A q \in trReqs, translation \in Translations :
       (q \notin trReqs' /\ q.target_lang = "Arabic" /\ TrOk(q, translation)) =>
         /\ Trimmed(PathFree[translation], After(q).text)
         /\ ~\E i \in 1..Len(After(q).text), j \in 1..Len(After(q).text) :
               IsPath(After(q).text, i, j)
         /\ After(q).currentLang = "ar"
         /\ ~After(q).disabled
         /\ After(q).label = "Original"]_vars

\* a control translated once and waiting for the next click
C7_Witness ==
  \E k \in Controls :
    /\ messages[k].currentLang = "ar" /\ ~messages[k].disabled
    /\ messages[k].label = "Original"
    /\ messages[k].text = << "marhaba" >>
    /\ messages[k].text # messages[k].orig

\* C8: a submit with an empty or whitespace-only input changes nothing: no
\* entry, no indicator, no chat request, every message and control as before.
C8_BlankSubmitIsNoOp ==
  /\ [][(Blank(input) /\ Submit) => UNCHANGED vars]_vars
  /\ [][Blank(input) =>
          /\ nSubmits' = nSubmits /\ shown' = shown
          /\ chatReqs' \subseteq chatReqs
          /\ Cardinality(WithClass(messages', "message user"))
               = Cardinality(WithClass(messages, "message user"))
          /\ Cardinality(WithClass(messages', "message bot typing"))
               <= Cardinality(Typing)]_vars
  /\ [](\A k \in 1..Len(messages) :
          messages[k].cls = "message user" => ~Blank(messages[k].text))

\* whitespace typed into the box after an earlier submission was answered
C8_Witness ==
  /\ input = << " " >> /\ nSubmits = 1 /\ chatReqs = {}
  /\ ENABLED Submit

\* C9: per bot message at most one translate request is in flight; while it
\* is, the control is disabled and a click on it starts no request.
C9_OneTranslateInFlight ==
  \A k \in Controls :
    /\ Cardinality(RequestsOf(messages[k].id)) <= 1
    /\ messages[k].disabled = (RequestsOf(messages[k].id) # {})
    /\ RequestsOf(messages[k].id) # {} => ~ENABLED Click(messages[k].id)

\* a request in flight on one control while the click budget is not used up
C9_Witness ==
  \E k \in Controls :
    /\ RequestsOf(messages[k].id) # {} /\ messages[k].disabled
    /\ nClicks < MaxClicks

\* C10: a failed chat request appends the fixed text "Unable to reach the
\* server." as the submission's bot entry, and the next non-empty submit is
\* accepted and processed like the first.
C10_ChatFailureMessage ==
  /\ [][\A r \in chatReqs :
          (ChatNotOk(r) \/ ChatReject(r)) =>
            LET n == Len(messages')
            IN  /\ n >= 1
                /\ messages'[n].cls = "message bot"
                /\ messages'[n].text = << "Unable to reach the server." >>
                /\ messages'[n].sub = r.sub
                /\ ~messages'[n].btn
                /\ BotOf(r.sub) = {}
                /\ r \notin chatReqs']_vars
  /\ [][SubmitEffect]_vars
  /\ []((loaded /\ ~Blank(input) /\ nSubmits < MaxSubmits) => ENABLED Submit)

\* the second submission was made after the first one had failed
C10_Witness ==
  /\ nSubmits = 2
  /\ \E k \in BotOf(1), u \in UserOf(2) :
       /\ messages[k].text = << "Unable to reach the server." >>
       /\ k < u

\* ---------------------------------------------- rendering of a reply --
MaxReplyLen == 7

\* every reply text of at most MaxReplyLen tokens
ReplyTexts ==
  UNION {[1..n -> {SP, GraphDir, Png, "a"}] : n \in 0..MaxReplyLen}

\* the page after the greeting and one submission, whose OK response with
\* data.reply = reply is on its way
RenderInit ==
  /\ messages =
       addBotTyping(
         addMessage(addBotMessage(<<>>, 1, Greeting, 0), 2,
                    <<"Hello", SP, "there">>, "user", 1),
         3, 1)
  /\ input = <<>>
  /\ loaded = TRUE
  /\ \E reply \in ReplyTexts :
       chatReqs = {[ sub |-> 1, message |-> <<"Hello", SP, "there">>,
                     typingElem |-> 3, reply |-> reply ]}
  /\ trReqs = {}
  /\ nextId = 4
  /\ nSubmits = 1
  /\ nClicks = 0
  /\ shown = 1
  /\ removed = 0
  /\ alerts = 0

\* the response arrives: typingElem.remove(); addBotMessage(data.reply)
RenderNext == \E r \in chatReqs : ChatOk(r, r.reply)

RenderSpec == RenderInit /\ [][RenderNext]_vars

\* an image reference in x from token i to token j
IsImageRef(x, i, j) ==
  /\ x[i] = "/static/graphs/"
  /\ j >= i + 2
  /\ x[j] = ".png"
  /\ \A k \in (i + 1)..(j - 1) : x[k] # " "

HasImageRef(x) == \E i \in 1..Len(x), j \in 1..Len(x) : IsImageRef(x, i, j)

\* C11: a rendered reply with image references shows a text without any
\* image reference plus an image pointing at a reference of the reply; a
\* reply without one is shown unchanged and without image.
C11_RenderedTextHasNoImageRef ==
  [][\A r \in chatReqs :
       r \notin chatReqs' =>
         LET e == messages'[Len(messages')]
         IN  IF HasImageRef(r.reply)
             THEN /\ ~HasImageRef(e.text)
                  /\ e.img # <<>>
                  /\ \E i \in 1..Len(r.reply), j \in 1..Len(r.reply) :
                       /\ IsImageRef(r.reply, i, j)
                       /\ e.img = SubSeq(r.reply, i, j)
             ELSE e.text = r.reply /\ e.img = <<>>]_vars

\* every element of the log other than the one with identity id is as before
OthersSame(id) ==
  /\ Len(messages') = Len(messages)
  /\ \A k \in 1..Len(messages) :
       messages[k].id # id => messages'[k] = messages[k]

\* every translate control of the log is in the log afterwards, unchanged
ControlsSame ==
  \A k \in Controls :
    \E j \in 1..Len(messages') : messages'[j] = messages[k]

\* C12: translate state is per message: a click on a control and the
\* success or failure of its request leave every other message as it was,
\* and a chat submission made while a translate request is in flight changes
\* no control, no translate request, and is not blocked.
C12_TranslateStatePerMessage ==
  /\ [][/\ \A id \in Ids(messages) :
             (nClicks' # nClicks /\ Click(id)) => OthersSame(id)
        /\ \A q \in trReqs : q \notin trReqs' => OthersSame(q.msg)
        /\ (trReqs # {} /\ nSubmits' # nSubmits) =>
             (ControlsSame /\ trReqs' = trReqs)
        /\ (trReqs # {} /\ chatReqs' # chatReqs) =>
             (ControlsSame /\ trReqs' = trReqs)]_vars
  /\ []((trReqs # {} /\ loaded /\ ~Blank(input) /\ nSubmits < MaxSubmits)
          => ENABLED Submit)

\* two controls in different translate states, one of them with its request
\* in flight, and a chat submission in flight at the same time
C12_Witness ==
  \E k \in Controls, j \in Controls :
    /\ k # j
    /\ messages[k].disabled /\ RequestsOf(messages[k].id) # {}
    /\ messages[j].currentLang = "ar" /\ ~messages[j].disabled
    /\ chatReqs # {}

\* the Original/Translated state of a control, read off currentLang
Translated(m) == m.currentLang = "ar"

\* C13: the request of a click carries the text displayed at click time and
\* the target language "Arabic" in the Original state, "English" in the
\* Translated state; the state flips only when a request succeeds, so the
\* click after a failed request asks for the same language again.
C13_RequestTextAndTarget ==
  [][/\ nClicks' # nClicks =>
          \E q \in trReqs' :
            /\ trReqs' = trReqs \cup {q} /\ q \notin trReqs
            /\ q.msg \in Ids(messages)
            /\ q.text = Before(q).text
            /\ q.target_lang =
                 (IF Translated(Before(q)) THEN "English" ELSE "Arabic")
            /\ Translated(After(q)) = Translated(Before(q))
     /\ \A k \in Controls :
          Translated(ElemOf(messages', messages[k].id)) # Translated(messages[k])
            => \E q \in trReqs :
                 /\ q.msg = messages[k].id /\ q \notin trReqs'
                 /\ alerts' = alerts
     /\ \A q \in trReqs :
          (q \notin trReqs' /\ alerts' # alerts) =>
            /\ Translated(After(q)) = Translated(Before(q))
            /\ (q.target_lang = "English") = Translated(After(q))]_vars

\* the only control, after one failed request, asked again for Arabic
C13_Witness ==
  /\ Cardinality(Controls) = 1
  /\ alerts = 1
  /\ \E q \in trReqs : q.rid = 2 /\ q.target_lang = "Arabic"

\* a translate request in flight is eventually answered, one way or another
TranslateResolve ==
  \E q \in trReqs :
    (TrNotOk(q) \/ TrReject(q) \/ TrBadBody(q)
       \/ \E translation \in Translations : TrOk(q, translation))

TranslateFairSpec == Spec /\ WF_vars(TranslateResolve)

\* C14: when every translate request is eventually answered, a control that
\* becomes disabled is eventually enabled again, whatever the outcome: a
\* control is never disabled without a request of its own in flight, and
\* again and again every control in the log is enabled.
C14_DisabledControlReenabled ==
  /\ [](\A k \in Controls :
          messages[k].disabled => RequestsOf(messages[k].id) # {})
  /\ []<>(\A k \in Controls : ~messages[k].disabled)

\* a control enabled again after a response whose body could not be used
C14_Witness ==
  \E k \in Controls :
    /\ ~messages[k].disabled /\ messages[k].label = "Translating..."
    /\ alerts = 2 /\ nClicks = 2 /\ trReqs = {}

\* the user and bot entries of a log, in log order, without the indicators
Entries(log) == SelectSeq(log, LAMBDA m : m.cls # "message bot typing")

\* C15: in every step the user and bot entries already in the log stay, in
\* the same order; a user entry keeps its text; a bot entry's text changes
\* only in the step that answers a translate request of that same entry
\* successfully; an element that leaves the log is a typing indicator.
C15_EntriesStay ==
  [][LET old == Entries(messages)
         new == Entries(messages')
     IN  /\ Len(new) >= Len(old)
         /\ \A k \in 1..Len(old) :
              /\ new[k].id = old[k].id
              /\ new[k].cls = old[k].cls
              /\ (old[k].cls = "message user" => new[k].text = old[k].text)
              /\ (new[k].text # old[k].text =>
                    /\ old[k].cls = "message bot"
                    /\ alerts' = alerts
                    /\ \E q \in trReqs \ trReqs' : q.msg = old[k].id)
         /\ \A k \in 1..Len(messages) :
              (\A j \in 1..Len(messages') : messages'[j].id # messages[k].id)
                => messages[k].cls = "message bot typing"]_vars

\* an indicator has been removed, a bot entry shows a translation, and the
\* user entry of the submission is in the log
C15_Witness ==
  /\ removed > 0
  /\ UserOf(1) # {}
  /\ \E k \in BotOf(1) : messages[k].text # messages[k].orig

\* the indicator that the submission of chat request r created is in log
OwnIndicatorIn(log, r) ==
  \E k \in 1..Len(log) :
    /\ log[k].id = r.typingElem
    /\ log[k].cls = "message bot typing"
    /\ log[k].sub = r.sub

\* C16: the indicator of every submission whose chat request is in flight is
\* in the log; the step that renders the reply of one submission removes
\* from the log the indicator that this submission created and no other
\* element, and the indicators of all other submissions still in flight are
\* in the log after it.
C16_OwnIndicatorRemoved ==
  /\ [](\A r \in chatReqs : OwnIndicatorIn(messages, r))
  /\ [][\A r \in chatReqs :
          (r \notin chatReqs' /\ \E reply \in Replies : ChatOk(r, reply)) =>
            /\ OwnIndicatorIn(messages, r)
            /\ \A k \in 1..Len(messages) :
                 (\A j \in 1..Len(messages') :
                    messages'[j].id # messages[k].id)
                   <=> messages[k].id = r.typingElem
            /\ \A o \in chatReqs \ {r} : OwnIndicatorIn(messages', o)]_vars

\* the reply of the second submission is rendered while the first is still
\* in flight with its indicator in the log
C16_Witness ==
  /\ \E k \in BotOf(2) : messages[k].btn
  /\ \E r \in chatReqs : r.sub = 1 /\ OwnIndicatorIn(messages, r)
  /\ \A k \in Typing : messages[k].sub = 1

\* C17: the user entries are in the log in submission order, one for every
\* submission made; the user entry of a submission precedes its bot entry;
\* the step in which a chat request resolves appends the bot entry of that
\* submission as the new last element, so bot entries follow one another in
\* the order the responses resolve.
C17_EntryOrder ==
  /\ [](\A i, j \in WithClass(messages, "message user") :
          i < j => messages[i].sub < messages[j].sub)
  /\ [](\A s \in 1..nSubmits :
          /\ UserOf(s) # {}
          /\ \A u \in UserOf(s), b \in BotOf(s) : u < b)
  /\ [][\A r \in chatReqs :
          r \notin chatReqs' =>
            LET n == Len(messages')
            IN  /\ messages'[n].cls = "message bot"
                /\ messages'[n].sub = r.sub
                /\ \A k \in 1..Len(messages) :
                     messages[k].id # messages'[n].id
                /\ \A b \in WithClass(messages, "message bot") :
                     \E k \in 1..(n - 1) : messages'[k].id = messages[b].id]_vars

\* the bot entry of the second submission precedes that of the first: the
\* responses resolved in the other order than the submissions were made
C17_Witness ==
  /\ \E i, j \in WithClass(messages, "message user") :
        i < j /\ messages[i].sub = 1 /\ messages[j].sub = 2
  /\ \E a \in BotOf(2), b \in BotOf(1) : a < b
====
